---- MODULE Spec2Model ----
(***************************************************************************)
(* Model of the synthetic sequence-task generators of mlpack's augmented   *)
(* neural network module: AddTask (add_impl.hpp) and CopyTask              *)
(* (copy_impl.hpp).                                                        *)
(*                                                                         *)
(* A column vector or a flattened matrix is a sequence of numbers; the     *)
(* C++ index k is the sequence index k + 1.  An arma::field is a sequence  *)
(* of such columns.  The random sources (mlpack::math::RandInt and         *)
(* arma::randi) read a bit stream rnd of period MaxDraws that the caller   *)
(* of Generate picks; every stream of that period is explored.             *)
(***************************************************************************)
EXTENDS Integers, Sequences, FiniteSets

VARIABLES task, op, arg, err, sizes, vals, vecInput, vecLabels, chan,
          input, labels, matInput, matLabels

vars == <<task, op, arg, err, sizes, vals, vecInput, vecLabels, chan,
          input, labels, matInput, matLabels>>

(* ------------------------------ bounds --------------------------------- *)

\* Largest bitLen whose tasks are explored beside the wide ones.
MaxBitLen == 3
\* Largest batchSize passed to a Generate call.
MaxBatch == 2
\* Period of the random bit stream a Generate call reads.
MaxDraws == 8
\* Bits of the stream one uniform draw u of RandInt consumes.
UBits == 2
\* Largest maxLength of a CopyTask.
MaxLength == 3
\* Largest nRepeats of a CopyTask.
MaxRepeats == 2

(* ------------------------- program constants --------------------------- *)

\* Width of the accumulators valA, valB and tot (int).
IntBits == 32
\* One-hot alphabet size used by Binarize (rows of arma::zeros(3, n)).
Alphabet == 3
\* The value stored for the '+' delimiter.
Separator == 2

IntMax == (2 ^ (IntBits - 2) - 1) + 2 ^ (IntBits - 2)
IntMin == (-IntMax) - 1

\* bitLen values whose operands reach the width of int.
WideBitLens == {IntBits - 1, IntBits}
BitLens == (0 .. MaxBitLen) \cup WideBitLens

UDen == 2 ^ UBits
Streams == [0 .. MaxDraws - 1 -> {0, 1}]

NoTask == [kind |-> "none"]

(* --------------------------- int arithmetic ---------------------------- *)

\* v << 1 on a 32-bit int, wrapped to two's complement.
Shl1(v) ==
  LET u == IF v < 0 THEN (v + IntMax) + 1 ELSE v
      h == 2 ^ (IntBits - 2)
  IN  IF u >= h THEN (2 * (u - h) - h) - h ELSE 2 * u

\* Whether v << 1 leaves the range of int (or shifts a negative value).
ShlOverflows(v) == v < 0 \/ v >= 2 ^ (IntBits - 2)

\* a + b on 32-bit ints, wrapped to two's complement.
Add32(a, b) ==
  IF a >= 0 /\ b >= 0 /\ a > IntMax - b
    THEN (((a - IntMax) - 1) + b - IntMax) - 1
    ELSE IF a < 0 /\ b < 0 /\ a < IntMin - b
      THEN (((a + IntMax) + 1) + b + IntMax) + 1
      ELSE a + b

AddOverflows(a, b) ==
  \/ a >= 0 /\ b >= 0 /\ a > IntMax - b
  \/ a < 0 /\ b < 0 /\ a < IntMin - b

(* ---------------------------- random source ---------------------------- *)

Bit(rnd, pos) == rnd[pos % MaxDraws]

\* Numerator k of the uniform draw u = k / UDen in [0, 1).
RECURSIVE DrawU(_, _, _)
DrawU(rnd, pos, n) ==
  IF n = 0 THEN 0 ELSE 2 * DrawU(rnd, pos, n - 1) + Bit(rnd, pos + n - 1)

\* mlpack::math::RandInt(lo, hiExclusive) = lo + floor((hiExclusive - lo) * u).
RandInt(lo, hiExclusive, k) == lo + ((hiExclusive - lo) * k) \div UDen

\* arma::randi<colvec>(n, distr_param(0, 1)).
Randi(rnd, pos, n) == [k \in 1 .. n |-> Bit(rnd, pos + k - 1)]

(* ------------------------------- AddTask ------------------------------- *)

AddTaskRejectsMutant(bitLen) == bitLen < 0

\* The constructor's check: bitLen is a size_t, so bitLen <= 0 is bitLen = 0.
AddTaskRejects(bitLen) == bitLen <= 0

\* The operand lengths of one item.
DrawSize(bitLen, fixedLength, k) ==
  IF fixedLength THEN bitLen ELSE RandInt(2, bitLen + 1, k)

SepIndexMutant(sizeA, sizeB) == sizeB

\* C++ index of the '+' delimiter in vecInput(i).
SepIndex(sizeA, sizeB) == sizeA

\* The loops computing valA and valB: for k in [lo, hi),
\* val <<= 1; val += vec.at(k).  ovf records a shift that left the range.
RECURSIVE ReadOperand(_, _, _, _, _)
ReadOperand(vec, k, hi, val, ovf) ==
  IF k >= hi THEN [val |-> val, ovf |-> ovf]
  ELSE IF ShlOverflows(val)
    THEN ReadOperand(vec, k + 1, hi, Shl1(val) + vec[k + 1], TRUE)
    ELSE ReadOperand(vec, k + 1, hi, Shl1(val) + vec[k + 1], ovf)

\* while (tot > 0) { binarySeq.push_back(tot & 1); tot >>= 1; }
RECURSIVE BinarySeq(_)
BinarySeq(tot) ==
  IF tot > 0 THEN <<tot % 2>> \o BinarySeq(tot \div 2) ELSE <<>>

Reverse(s) == [j \in 1 .. Len(s) |-> s[Len(s) - j + 1]]

\* One iteration of the loop of Generate, reading the stream from pos.
AddItem(bitLen, fixedLength, rnd, pos) ==
  LET sizeA == DrawSize(bitLen, fixedLength, DrawU(rnd, pos, UBits))
      sizeB == DrawSize(bitLen, fixedLength, DrawU(rnd, pos + UBits, UBits))
      p1    == IF fixedLength THEN pos ELSE pos + 2 * UBits
      n     == sizeA + sizeB + 1
      vec   == [Randi(rnd, p1, n) EXCEPT ![SepIndex(sizeA, sizeB) + 1] = Separator]
      a     == ReadOperand(vec, 0, sizeA, 0, FALSE)
      b     == ReadOperand(vec, sizeA + 1, sizeA + 1 + sizeB, 0, FALSE)
      tot   == Add32(a.val, b.val)
      seq0  == BinarySeq(tot)
      bad   == seq0 = <<>> /\ tot # 0
      seq   == IF seq0 = <<>> THEN <<0>> ELSE seq0
  IN  [sizeA |-> sizeA, sizeB |-> sizeB, vec |-> vec,
       valA |-> a.val, valB |-> b.val, tot |-> tot,
       ovf |-> a.ovf \/ b.ovf \/ AddOverflows(a.val, b.val),
       err |-> IF bad THEN "domain_error" ELSE "ok",
       label |-> IF bad THEN <<>> ELSE Reverse(seq), pos |-> p1 + n]

\* The loop of Generate: the items made until the loop ends or one throws.
RECURSIVE AddItems(_, _, _, _, _)
AddItems(bitLen, fixedLength, rnd, n, pos) ==
  IF n = 0 THEN <<>>
  ELSE LET it == AddItem(bitLen, fixedLength, rnd, pos)
       IN  IF it.err # "ok" THEN <<it>>
           ELSE <<it>> \o AddItems(bitLen, fixedLength, rnd, n - 1, it.pos)

\* zeros(3, n) with at(val, j) = 1, reshaped to one column (column-major).
OneHot(v) ==
  [x \in 1 .. Alphabet * Len(v) |->
     IF v[(x - 1) \div Alphabet + 1] = (x - 1) % Alphabet THEN 1 ELSE 0]

\* AddTask::Binarize.
Binarize(field) == [i \in 1 .. Len(field) |-> OneHot(field[i])]

\* arma reshape(n, 1) of a column: elements kept in order, zero filled.
Reshape(col, n) == [x \in 1 .. n |-> IF x <= Len(col) THEN col[x] ELSE 0]

LabelRowsMutant(inputCol, labelCol) == Len(labelCol)

\* The row count the labels are reshaped to: input.at(i).n_elem.
LabelRows(inputCol, labelCol) == Len(inputCol)

\* The loop over the labels: labels.at(i).reshape(input.at(i).n_elem, 1).
AlignLabels(in, lab) ==
  [i \in 1 .. Len(in) |-> Reshape(lab[i], LabelRows(in[i], lab[i]))]

\* How Generate ends: an exception of the loop, the alignment check, or ok.
AddError(items, in, lab) ==
  IF Len(items) > 0 /\ items[Len(items)].err # "ok"
    THEN items[Len(items)].err
    ELSE IF Len(in) # Len(lab) THEN "logic_error" ELSE "ok"

AddReturn(items, vIn, vLab, in, lab, e) ==
  [err |-> e,
   ovf |-> \E i \in 1 .. Len(items) : items[i].ovf,
   sizes |-> [i \in 1 .. Len(items) |-> <<items[i].sizeA, items[i].sizeB>>],
   vals |-> [i \in 1 .. Len(items) |->
               [valA |-> items[i].valA, valB |-> items[i].valB,
                tot |-> items[i].tot]],
   vecInput |-> vIn, vecLabels |-> vLab,
   input |-> IF e = "ok" THEN in ELSE <<>>,
   labels |-> IF e = "ok" THEN AlignLabels(in, lab) ELSE <<>>]

\* Binarize(vecInput, input); Binarize(vecLabels, labels); the check.
AddEncode(items, vIn, vLab, in, lab) ==
  AddReturn(items, vIn, vLab, in, lab, AddError(items, in, lab))

AddFields(items, vIn, vLab) ==
  AddEncode(items, vIn, vLab, Binarize(vIn), Binarize(vLab))

AddVectors(items) ==
  AddFields(items, [i \in 1 .. Len(items) |-> items[i].vec],
                   [i \in 1 .. Len(items) |-> items[i].label])

\* The variable-length AddTask::Generate up to its return or throw.
AddRun(bitLen, fixedLength, rnd, batchSize) ==
  AddVectors(AddItems(bitLen, fixedLength, rnd, batchSize, 0))

\* The dense AddTask::Generate after the variable-length call returned r:
\* set_size(field(0).n_rows, batchSize), then col(i) = field.at(i).
DenseError(r, batchSize) ==
  IF r.err # "ok" THEN r.err
  ELSE IF batchSize = 0 THEN "out_of_bounds"
  ELSE IF \E i \in 1 .. batchSize :
            \/ Len(r.input[i]) # Len(r.input[1])
            \/ Len(r.labels[i]) # Len(r.labels[1])
    THEN "size_mismatch"
    ELSE "ok"

DenseColsMutant(field, batchSize) == [i \in 1 .. batchSize |-> field[1]]

\* The loop input.col(i) = fieldInput.at(i) (and the same for the labels).
DenseCols(field, batchSize) == [i \in 1 .. batchSize |-> field[i]]

(* ------------------------------- CopyTask ------------------------------ *)

\* A matrix is [nr, nc, mem] with mem in column-major order, as arma::mat.
Zeros(nr, nc) == [nr |-> nr, nc |-> nc, mem |-> [x \in 1 .. nr * nc |-> 0]]

At(m, r, c) == m.mem[c * m.nr + r + 1]

\* m.col(c).rows(r0, r1) = v.
SetColRows(m, c, r0, r1, v) ==
  [m EXCEPT !.mem = [x \in 1 .. m.nr * m.nc |->
     IF (x - 1) \div m.nr = c /\ (x - 1) % m.nr >= r0 /\ (x - 1) % m.nr <= r1
       THEN v[((x - 1) % m.nr) - r0 + 1]
       ELSE m.mem[x]]]

\* m.t().
Transpose(m) ==
  [nr |-> m.nc, nc |-> m.nr,
   mem |-> [x \in 1 .. m.nr * m.nc |->
              At(m, (x - 1) \div m.nc, (x - 1) % m.nc)]]

\* m.reshape(nr, nc): the elements keep their column-major order.
ReshapeMat(m, nr, nc) ==
  [nr |-> nr, nc |-> nc,
   mem |-> [x \in 1 .. nr * nc |-> IF x <= m.nr * m.nc THEN m.mem[x] ELSE 0]]

\* arma::repmat(v, n, 1) of a column v.
Repmat(v, n) == [x \in 1 .. Len(v) * n |-> v[((x - 1) % Len(v)) + 1]]

Ones(n) == [x \in 1 .. n |-> 1]

StoredInputMutant(m) == ReshapeMat(m, m.nr * m.nc, 1)

\* input(i) = input(i).t(); input(i).reshape(input(i).n_elem, 1).
StoredInput(m) == ReshapeMat(Transpose(m), m.nr * m.nc, 1)

GoChannelMutant(m, size, totSize) ==
  SetColRows(m, 1, 0, size - 1, Ones(size))

\* input(i).col(1).rows(n_elem, totSize - 1) = ones(totSize - n_elem).
GoChannel(m, size, totSize) ==
  SetColRows(m, 1, size, totSize - 1, Ones(totSize - size))

CopyLabelMutant(size, totSize, vecLabel) ==
  SetColRows(Zeros(totSize, 1), 0, 0, totSize - size - 1, vecLabel)

\* labels(i) = zeros(totSize, 1); labels(i).col(0).rows(n_elem, totSize - 1)
\* = vecLabel.
CopyLabel(size, totSize, vecLabel) ==
  SetColRows(Zeros(totSize, 1), 0, size, totSize - 1, vecLabel)

CopyBuild(size, vecIn, vecLabel, totSize) ==
  [size |-> size, vecInput |-> vecIn, vecLabel |-> vecLabel,
   chan |-> GoChannel(SetColRows(Zeros(totSize, 2), 0, 0, size - 1, vecIn),
                      size, totSize),
   label |-> CopyLabel(size, totSize, vecLabel).mem]

CopyFill(size, vecIn, vecLabel) ==
  CopyBuild(size, vecIn, vecLabel, Len(vecIn) + Len(vecLabel))

CopySized(size, nRepeats, rnd, pos) ==
  CopyFill(size, Randi(rnd, pos, size), Repmat(Randi(rnd, pos, size), nRepeats))

\* One iteration of the loop of CopyTask::Generate, reading the stream from
\* pos; the iteration consumes UBits + size bits.
CopyItem(maxLength, nRepeats, rnd, pos) ==
  CopySized(RandInt(2, maxLength + 1, DrawU(rnd, pos, UBits)),
            nRepeats, rnd, pos + UBits)

RECURSIVE CopyItems(_, _, _, _, _)
CopyItems(maxLength, nRepeats, rnd, n, pos) ==
  IF n = 0 THEN <<>>
  ELSE <<CopyItem(maxLength, nRepeats, rnd, pos)>>
       \o CopyItems(maxLength, nRepeats, rnd, n - 1,
                    pos + UBits
                    + RandInt(2, maxLength + 1, DrawU(rnd, pos, UBits)))

(* ------------------------------ operations ----------------------------- *)

Init ==
  /\ task = NoTask
  /\ op = "none" /\ arg = <<>> /\ err = "ok"
  /\ sizes = <<>> /\ vals = <<>> /\ vecInput = <<>> /\ vecLabels = <<>>
  /\ chan = <<>> /\ input = <<>> /\ labels = <<>>
  /\ matInput = <<>> /\ matLabels = <<>>

\* AddTask::AddTask(bitLen).
NewAddTask(bitLen) ==
  /\ task = NoTask /\ op = "none"
  /\ op' = "AddTask" /\ arg' = <<bitLen>>
  /\ IF AddTaskRejects(bitLen)
       THEN err' = "invalid_argument" /\ task' = NoTask
       ELSE err' = "ok" /\ task' = [kind |-> "add", bitLen |-> bitLen]
  /\ UNCHANGED <<sizes, vals, vecInput, vecLabels, chan, input, labels,
                 matInput, matLabels>>

\* AddTask::Generate(field input, field labels, batchSize, fixedLength).
\* Signed overflow of the int accumulators is undefined: the call either
\* goes on with the wrapped value or traps.
AddGenerate(batchSize, fixedLength, rnd) ==
  /\ task.kind = "add" /\ op = "idle"
  /\ LET r == AddRun(task.bitLen, fixedLength, rnd, batchSize)
     IN  /\ op' = "Generate" /\ arg' = <<batchSize, fixedLength>>
         /\ sizes' = r.sizes /\ vals' = r.vals
         /\ vecInput' = r.vecInput /\ vecLabels' = r.vecLabels
         /\ \/ /\ err' = r.err
               /\ input' = r.input /\ labels' = r.labels
            \/ /\ r.ovf
               /\ err' = "overflow_trap"
               /\ input' = <<>> /\ labels' = <<>>
  /\ UNCHANGED <<task, chan, matInput, matLabels>>

\* AddTask::Generate(mat input, mat labels, batchSize).  fieldInput(0) of
\* an empty field is rejected by arma's bounds check; a build without the
\* check (ARMA_NO_DEBUG) reads outside the field and crashes.
AddGenerateDense(batchSize, rnd) ==
  /\ task.kind = "add" /\ op = "idle"
  /\ LET r == AddRun(task.bitLen, TRUE, rnd, batchSize)
         e == DenseError(r, batchSize)
     IN  /\ op' = "GenerateDense" /\ arg' = <<batchSize, TRUE>>
         /\ sizes' = r.sizes /\ vals' = r.vals
         /\ vecInput' = r.vecInput /\ vecLabels' = r.vecLabels
         /\ \/ /\ err' = e
               /\ input' = r.input /\ labels' = r.labels
               /\ matInput' = IF e = "ok" THEN DenseCols(r.input, batchSize)
                                          ELSE <<>>
               /\ matLabels' = IF e = "ok" THEN DenseCols(r.labels, batchSize)
                                           ELSE <<>>
            \/ /\ e = "out_of_bounds"
               /\ err' = "crash"
               /\ input' = r.input /\ labels' = r.labels
               /\ matInput' = <<>> /\ matLabels' = <<>>
            \/ /\ r.ovf
               /\ err' = "overflow_trap"
               /\ input' = <<>> /\ labels' = <<>>
               /\ matInput' = <<>> /\ matLabels' = <<>>
  /\ UNCHANGED <<task, chan>>

\* CopyTask::CopyTask(maxLength, nRepeats); the assert aborts the program.
NewCopyTask(maxLength, nRepeats) ==
  /\ task = NoTask /\ op = "none"
  /\ op' = "CopyTask" /\ arg' = <<maxLength, nRepeats>>
  /\ IF maxLength > 1
       THEN err' = "ok"
            /\ task' = [kind |-> "copy", maxLength |-> maxLength,
                        nRepeats |-> nRepeats]
       ELSE err' = "assert_failed" /\ task' = NoTask
  /\ UNCHANGED <<sizes, vals, vecInput, vecLabels, chan, input, labels,
                 matInput, matLabels>>

\* CopyTask::Generate(input, labels, batchSize).  With nRepeats = 0 the
\* spans rows(size, size - 1) are rejected by arma's bounds check; a build
\* without the check (ARMA_NO_DEBUG) assigns to empty spans.
CopyGenerate(batchSize, rnd) ==
  /\ task.kind = "copy" /\ op = "idle"
  /\ LET items == CopyItems(task.maxLength, task.nRepeats, rnd, batchSize, 0)
     IN  /\ op' = "CopyGenerate" /\ arg' = <<batchSize>>
         /\ \/ /\ task.nRepeats > 0 \/ batchSize = 0
               /\ err' = "ok"
            \/ /\ task.nRepeats = 0 /\ batchSize > 0
               /\ err' \in {"ok", "out_of_bounds"}
         /\ IF err' = "ok"
              THEN /\ sizes' = [i \in 1 .. batchSize |-> <<items[i].size>>]
                   /\ vecInput' = [i \in 1 .. batchSize |-> items[i].vecInput]
                   /\ vecLabels' = [i \in 1 .. batchSize |-> items[i].vecLabel]
                   /\ chan' = [i \in 1 .. batchSize |-> items[i].chan]
                   /\ input' = [i \in 1 .. batchSize |->
                                  StoredInput(items[i].chan).mem]
                   /\ labels' = [i \in 1 .. batchSize |-> items[i].label]
              ELSE /\ sizes' = <<>> /\ vecInput' = <<>> /\ vecLabels' = <<>>
                   /\ chan' = <<>> /\ input' = <<>> /\ labels' = <<>>
  /\ UNCHANGED <<task, vals, matInput, matLabels>>

\* The caller drops what the last call returned (or threw) before the next.
Release ==
  /\ task # NoTask /\ op # "idle"
  /\ op' = "idle" /\ arg' = <<>> /\ err' = "ok"
  /\ sizes' = <<>> /\ vals' = <<>> /\ vecInput' = <<>> /\ vecLabels' = <<>>
  /\ chan' = <<>> /\ input' = <<>> /\ labels' = <<>>
  /\ matInput' = <<>> /\ matLabels' = <<>>
  /\ UNCHANGED task

\* The task object goes out of scope, or the failed construction is left.
Destroy ==
  /\ op \in {"idle", "AddTask", "CopyTask"}
  /\ task' = NoTask
  /\ op' = "none" /\ arg' = <<>> /\ err' = "ok"
  /\ UNCHANGED <<sizes, vals, vecInput, vecLabels, chan, input, labels,
                 matInput, matLabels>>

Next ==
  \/ \E b \in BitLens : NewAddTask(b)
  \/ \E n \in 0 .. MaxBatch, f \in BOOLEAN, rnd \in Streams :
       AddGenerate(n, f, rnd)
  \/ \E n \in 0 .. MaxBatch, rnd \in Streams : AddGenerateDense(n, rnd)
  \/ \E m \in 0 .. MaxLength, r \in 0 .. MaxRepeats : NewCopyTask(m, r)
  \/ \E n \in 0 .. MaxBatch, rnd \in Streams : CopyGenerate(n, rnd)
  \/ Release
  \/ Destroy

Spec == Init /\ [][Next]_vars

(* ------------------------- reading the results ------------------------- *)

IsAddCall == op \in {"Generate", "GenerateDense"}
IsCopyResult == op = "CopyGenerate" /\ err = "ok"

\* The symbol of one-hot column j (from 0) of a flattened item, -1 if the
\* column does not hold exactly one 1.
SymbolAt(col, j) ==
  LET on == {v \in 0 .. Alphabet - 1 : col[Alphabet * j + v + 1] = 1}
  IN  IF Cardinality(on) = 1 THEN CHOOSE v \in on : TRUE ELSE -1

DecodeSymbols(col, n) == [j \in 1 .. n |-> SymbolAt(col, j - 1)]

\* The number of leading one-hot columns of a flattened item.
LeadLen(col) ==
  Cardinality({j \in 1 .. Len(col) \div Alphabet :
                 \A h \in 1 .. j : SymbolAt(col, h - 1) # -1})

\* A natural number as <<high limb, low limb>> in base 2^16: the integers
\* decoded here need more than 31 bits.
LimbBits == IntBits \div 2
LimbBase == 2 ^ LimbBits

RECURSIVE BitsValue(_, _)
BitsValue(bits, n) ==
  IF n = 0 THEN 0 ELSE 2 * BitsValue(bits, n - 1) + bits[n]

\* Big-endian binary-to-integer of a bit sequence.
NatOf(bits) ==
  IF Len(bits) <= LimbBits THEN <<0, BitsValue(bits, Len(bits))>>
  ELSE <<BitsValue(SubSeq(bits, 1, Len(bits) - LimbBits), Len(bits) - LimbBits),
         BitsValue(SubSeq(bits, Len(bits) - LimbBits + 1, Len(bits)), LimbBits)>>

NatSum(a, b) ==
  <<a[1] + b[1] + (a[2] + b[2]) \div LimbBase, (a[2] + b[2]) % LimbBase>>

SepPos(syms) == CHOOSE j \in 1 .. Len(syms) : syms[j] = Separator

\* decode(A) + decode(B) read from a returned one-hot input item.
InputSum(col) ==
  LET syms == DecodeSymbols(col, Len(col) \div Alphabet)
  IN  NatSum(NatOf(SubSeq(syms, 1, SepPos(syms) - 1)),
             NatOf(SubSeq(syms, SepPos(syms) + 1, Len(syms))))

\* The integer a returned label item decodes to (its one-hot columns).
LabelValue(col) == NatOf(DecodeSymbols(col, LeadLen(col)))

(* -------------------------------- claims ------------------------------- *)

\* C1: every item the variable-length AddTask::Generate returns has a
\* one-hot label that decodes to decode(A) + decode(B) of its one-hot input.
C1_RoundTrip ==
  (op = "Generate" /\ err = "ok") =>
    \A i \in 1 .. Len(input) : LabelValue(labels[i]) = InputSum(input[i])

\* C2: AddTask construction succeeds for every bitLen >= 1 and fails with
\* invalid_argument for bitLen <= 0, so no AddTask with bitLen <= 0 exists
\* and none is ever generated from.
C2_Construction ==
  /\ op = "AddTask" =>
       /\ arg[1] >= 1 => err = "ok" /\ task = [kind |-> "add", bitLen |-> arg[1]]
       /\ arg[1] <= 0 => err = "invalid_argument" /\ task = NoTask
  /\ task.kind = "add" => task.bitLen >= 1
  /\ IsAddCall => task.kind = "add" /\ task.bitLen >= 1

C2_Witness == op = "AddTask" /\ arg[1] = 0 /\ err = "invalid_argument"

\* C3: every item of AddTask::Generate has an input symbol sequence of
\* length sizeA + sizeB + 1 with the separator exactly once, at index
\* sizeA, and bits elsewhere; the returned one-hot item encodes it.
C3_Separator ==
  IsAddCall =>
    \A i \in 1 .. Len(vecInput) :
      /\ Len(vecInput[i]) = sizes[i][1] + sizes[i][2] + 1
      /\ \A j \in 1 .. Len(vecInput[i]) :
           IF j = sizes[i][1] + 1 THEN vecInput[i][j] = Separator
                                  ELSE vecInput[i][j] \in {0, 1}
      /\ i <= Len(input) =>
           DecodeSymbols(input[i], Len(input[i]) \div Alphabet) = vecInput[i]

C3_Witness ==
  /\ op = "Generate" /\ err = "ok"
  /\ \E i \in 1 .. Len(input) : sizes[i][1] # sizes[i][2]

C5_CopyLabel ==
  IsCopyResult =>
    \A i \in 1 .. Len(labels) :
      LET size == sizes[i][1]
      IN  /\ Len(vecInput[i]) = size
          /\ Len(labels[i]) = size + size * task.nRepeats
          /\ \A t \in 1 .. size :
               /\ labels[i][t] = 0
               /\ vecInput[i][t] = At(chan[i], t - 1, 0)
               /\ \A k \in 0 .. task.nRepeats - 1 :
                    labels[i][size + k * size + t] = vecInput[i][t]

C5_Witness ==
  /\ IsCopyResult /\ task.nRepeats >= 2
  /\ \E i \in 1 .. Len(labels) : vecInput[i][1] # vecInput[i][sizes[i][1]]

\* C6: every two-channel input of CopyTask::Generate has
\* size + size*nRepeats positions, the delimiter channel zero at the first
\* size positions and one after, the value channel the base sequence at the
\* first size positions and zero after, with size in [2, maxLength].
C6_Channels ==
  IsCopyResult =>
    \A i \in 1 .. Len(chan) :
      LET size == sizes[i][1]
      IN  /\ size >= 2 /\ size <= task.maxLength
          /\ chan[i].nr = size + size * task.nRepeats /\ chan[i].nc = 2
          /\ \A t \in 0 .. chan[i].nr - 1 :
               /\ At(chan[i], t, 1) = IF t < size THEN 0 ELSE 1
               /\ At(chan[i], t, 0) = IF t < size THEN vecInput[i][t + 1] ELSE 0

C6_Witness ==
  /\ IsCopyResult /\ task.nRepeats >= 1 /\ Len(chan) >= 1
  /\ sizes[1][1] = task.maxLength /\ task.maxLength > 2
  /\ \E t \in 1 .. sizes[1][1] : vecInput[1][t] = 1

\* C7 as stated: each label item the variable-length AddTask::Generate
\* returns is the one-hot encoding of its label symbols and nothing else,
\* of length 3 times the number of digits of the sum.
C7_OwnCount ==
  (op = "Generate" /\ err = "ok") =>
    \A i \in 1 .. Len(labels) :
      /\ Len(labels[i]) = Alphabet * Len(vecLabels[i])
      /\ labels[i] = OneHot(vecLabels[i])

\* C7 amended: each returned label item has the element count of its input
\* item, 3*(sizeA + sizeB + 1); it starts with the one-hot encoding of the
\* label symbols (3 per digit of the sum), which is shorter, and is zero
\* after it.
C7_PaddedToInput ==
  (op = "Generate" /\ err = "ok") =>
    \A i \in 1 .. Len(labels) :
      /\ Len(labels[i]) = Len(input[i])
      /\ Len(labels[i]) = Alphabet * (sizes[i][1] + sizes[i][2] + 1)
      /\ Alphabet * Len(vecLabels[i]) < Len(labels[i])
      /\ \A x \in 1 .. Len(labels[i]) :
           labels[i][x] = IF x <= Alphabet * Len(vecLabels[i])
                            THEN OneHot(vecLabels[i])[x] ELSE 0

C7_Witness ==
  /\ op = "Generate" /\ err = "ok" /\ Len(labels) >= 1
  /\ Len(vecLabels[1]) >= 2
  /\ Len(labels[1]) > Alphabet * Len(vecLabels[1])

\* C8 as stated: each stored CopyTask input is a column of length 2*L,
\* L = size + size*nRepeats, in channel-major order: channel c at position
\* t is stored at index c*L + t.
C8_ChannelMajor ==
  IsCopyResult =>
    \A i \in 1 .. Len(input) :
      /\ Len(input[i]) = 2 * chan[i].nr
      /\ \A c \in 0 .. 1, t \in 0 .. chan[i].nr - 1 :
           input[i][c * chan[i].nr + t + 1] = At(chan[i], t, c)

\* C8 amended: each stored CopyTask input is a column of length 2*L in
\* position-major (interleaved) order: channel c at position t is stored at
\* index 2*t + c.
C8_Interleaved ==
  IsCopyResult =>
    \A i \in 1 .. Len(input) :
      /\ Len(input[i]) = 2 * chan[i].nr
      /\ \A c \in 0 .. 1, t \in 0 .. chan[i].nr - 1 :
           input[i][2 * t + c + 1] = At(chan[i], t, c)

C8_Witness ==
  /\ IsCopyResult /\ task.nRepeats >= 1 /\ Len(input) >= 1
  /\ \E t \in 1 .. sizes[1][1] : vecInput[1][t] = 1

\* C9: for every constructed AddTask and every generated item, sizeA =
\* sizeB = bitLen when fixedLength, and otherwise sizeA and sizeB lie in
\* [2, bitLen], so no operand has more than bitLen bits.
C9_Sizes ==
  IsAddCall =>
    \A i \in 1 .. Len(sizes) :
      IF arg[2] THEN sizes[i] = <<task.bitLen, task.bitLen>>
      ELSE /\ sizes[i][1] >= 2 /\ sizes[i][1] <= task.bitLen
           /\ sizes[i][2] >= 2 /\ sizes[i][2] <= task.bitLen

\* C10: AddTask::Generate never raises the domain error or the logic
\* error: the digit sequence of the int sum is empty only when the sum is
\* zero, and the encoded batches both hold batchSize items.
C10_NoError ==
  op = "Generate" =>
    /\ err \notin {"domain_error", "logic_error"}
    /\ \A i \in 1 .. Len(vals) :
         BinarySeq(vals[i].tot) = <<>> => vals[i].tot = 0 /\ vecLabels[i] = <<0>>
    /\ err = "ok" => Len(input) = arg[1] /\ Len(labels) = arg[1]

====
